---- MODULE Spec2Model ----
(***************************************************************************)
(* Model of the ChatGPT CSV interaction tool: the POST /chat handler       *)
(* (index.js and the older front end), the two automation services (the    *)
(* login service chatgpt-service.js and the direct-access service          *)
(* services/chatgpt-service.js) and the persistence component              *)
(* saveResponseToCsv.  The third-party page, the browser and the clock are *)
(* the environment: every browser operation either completes or fails,     *)
(* and the text the page yields is a nondeterministic choice.              *)
(***************************************************************************)
EXTENDS Integers, Sequences, FiniteSets, TLC

\* ---------------------------------------------------------------- bounds
\* The latest instant (in milliseconds) that the clock reaches by itself; the
\* timers of the sessions move it further.
MaxClock == 1

\* The POST /chat requests the server receives, numbered in order of arrival:
\* two, so that automation sessions can overlap.
Reqs == {1, 2}

\* ---------------------------------------------------------------- values
\* A field that is absent from req.body (undefined in the code).
Missing == "<undefined>"
\* JavaScript null.
Null == "<null>"
\* JavaScript truthiness of a request field: undefined and '' are falsy.
Truthy(v) == v \notin {Missing, ""}

EmailVals == {Missing, "user@example.com"}
PasswordVals == {Missing, "secret"}
InitialPromptVals == {Missing, "", "hi"}
ReplyPromptVals == {Missing, "", "more"}
\* Texts the page can show as the last assistant message.
PageTexts == {"answer A", "answer B"}
\* Texts it can show as the answer to the reply prompt: with the first answers
\* above, a reply equal to the first answer and one that differs from it.
ReplyTexts == {"answer B"}

\* The request bodies: every combination of prompts with both credentials
\* present, and a single-turn request with one credential absent.
Bodies ==
  [email : {"user@example.com"}, password : {"secret"},
   initialPrompt : InitialPromptVals, replyPrompt : ReplyPromptVals]
  \cup
  {b \in [email : EmailVals, password : PasswordVals,
          initialPrompt : {"hi"}, replyPrompt : {Missing}] :
     Missing \in {b.email, b.password}}
NoBody == [email |-> Missing, password |-> Missing,
           initialPrompt |-> Missing, replyPrompt |-> Missing]

VARIABLES
  frontend,   \* which /chat handler is deployed: "index" or "old"
  service,    \* which chatGPTInteraction it requires: "login" or "direct"
  clock,      \* Date.now(), in milliseconds since the server started
  files,      \* the outputs directory: path -> rows of the file, or Null
  body,       \* req.body of each request
  hpc,        \* position of each request's handler
  spc,        \* position of each request's automation session
  sess,       \* local variables of each session
  result,     \* how each chatGPTInteraction promise settled
  resp,       \* the HTTP responses sent for each request, in order
  trace       \* the events of each request, in order

vars == <<frontend, service, clock, files, body, hpc, spc, sess, result, resp, trace>>

\* ------------------------------------------------------------ persistence
\* path.join(outputDir, `chatgpt-${type}-response-${timestamp}.csv`): the
\* millisecond timestamp is printed in full, so the name keeps type and time.
CsvPath(type, t) == [type |-> type, stamp |-> t]
Paths == [type : {"initial", "reply"}, stamp : 0..(MaxClock + Cardinality(Reqs))]
\* null, and the empty string the direct-access service returns as a path.
NoPath == [type |-> Null, stamp |-> -1]
EmptyPath == [type |-> "", stamp |-> -1]
NoRecord == [prompt |-> Null, response |-> Null, timestamp |-> -1]
NoFile == [exists |-> FALSE, rows |-> <<>>]

\* csvWriter.writeRecords(records) of a writer created without append: true.
\* Its first write opens the file with flag 'w', so the file then holds the
\* header and these records only.
WriteRecords(file, records) == [exists |-> TRUE, rows |-> records]

NoResult == [kind |-> "pending", success |-> FALSE, error |-> Null,
             initialResponse |-> Null, replyResponse |-> Null,
             initialCsvPath |-> NoPath, replyCsvPath |-> NoPath]
NoSess == [browser |-> "none", initialResponse |-> Null, replyResponse |-> Null,
           initialCsvPath |-> NoPath, replyCsvPath |-> NoPath,
           filePath |-> NoPath, record |-> NoRecord, outcome |-> NoResult,
           chatInputSelector |-> Null,
           \* the page: whether a streaming or loading indicator is on it,
           \* what its login form holds, and whether it shows a CAPTCHA
           streaming |-> FALSE, username |-> Null, password |-> Null,
           captcha |-> FALSE,
           \* the navigation: the local flags, the outcomes of the stages so
           \* far, and the site and attempt of the official-site loop
           hasChatInterface |-> FALSE, mainSiteAccessSuccessful |-> FALSE,
           stages |-> <<>>, site |-> 0, attempt |-> 0,
           \* the search for the input: the outcomes of the approaches so far,
           \* the index of the selector on trial, the selectors that were
           \* tried in vain, and the presses of Tab
           approaches |-> <<>>, selector |-> 0, absent |-> {}, tabs |-> 0]

\* The deployments: index.js requires the direct-access service or the login
\* service, the older front end requires the login service.
Deployments == {<<"index", "direct">>, <<"index", "login">>, <<"old", "login">>}

Init ==
  /\ \E d \in Deployments : frontend = d[1] /\ service = d[2]
  /\ clock = 0
  /\ files = [p \in Paths |-> NoFile]
  /\ body = [r \in Reqs |-> NoBody]
  /\ hpc = [r \in Reqs |-> "idle"]
  /\ spc = [r \in Reqs |-> "none"]
  /\ sess = [r \in Reqs |-> NoSess]
  /\ result = [r \in Reqs |-> NoResult]
  /\ resp = [r \in Reqs |-> <<>>]
  /\ trace = [r \in Reqs |-> <<>>]

\* The clock is only observed where the code reads it (new Date()), so the time
\* that elapsed since the last reading is chosen at the reading.  Only the
\* order and equality of the instants read matter, so a reading is either the
\* instant of the last one or the next instant, up to the bound.
Now == {clock} \cup (IF clock < MaxClock THEN {clock + 1} ELSE {})

\* ------------------------------------------------------------ HTTP front end
\* A validation that tests the fields against undefined only, so that an
\* empty string passes.
ValidUndefinedOnly(b) ==
  IF frontend = "index"
  THEN b.initialPrompt # Missing
  ELSE b.email # Missing /\ b.password # Missing /\ b.initialPrompt # Missing

\* if (!initialPrompt) return res.status(400)... in index.js
ValidIndex(b) == Truthy(b.initialPrompt)
\* if (!email || !password || !initialPrompt) return ... in the older front end
ValidOld(b) == Truthy(b.email) /\ Truthy(b.password) /\ Truthy(b.initialPrompt)

\* The validation at the top of app.post('/chat').
Valid(b) == IF frontend = "index" THEN ValidIndex(b) ELSE ValidOld(b)

NoField == [status |-> 0, success |-> Null, error |-> Null, suggestion |-> Null,
            initialResponse |-> Null, replyResponse |-> Null,
            initialCsvPath |-> NoPath, replyCsvPath |-> NoPath]

\* res.status(400).json({ error: ... })
Json400 ==
  [NoField EXCEPT !.status = 400,
     !.error = IF frontend = "index" THEN "Missing required prompt"
               ELSE "Missing required fields"]

\* res.json({ success: true, ...result }): the spread of result comes last, so
\* result.success replaces the literal true.
Json200(res) ==
  [NoField EXCEPT !.status = 200, !.success = res.success, !.error = res.error,
     !.initialResponse = res.initialResponse, !.replyResponse = res.replyResponse,
     !.initialCsvPath = res.initialCsvPath, !.replyCsvPath = res.replyCsvPath]

\* res.status(500).json({ error: error.message || ..., suggestion: ... })
Json500(res) ==
  [NoField EXCEPT !.status = 500, !.error = res.error,
     !.suggestion = "If you encountered a CAPTCHA issue, try again"]

\* res.json(...): one response goes out on the connection of request r.
SendJson(r, j) == [resp EXCEPT ![r] = Append(@, j)]

\* A call of chatGPTInteraction without await: the handler goes on at once.
NotAwaited(r) == TRUE

\* await chatGPTInteraction(...): the handler resumes once the promise settled.
Awaited(r) == result[r].kind # "pending"

\* The events of a request: what happened, and the prompt, response and file
\* path it happened to.
E(name) == [ev |-> name, prompt |-> Null, response |-> Null, path |-> NoPath]
Log(r, e) == [trace EXCEPT ![r] = Append(@, e)]
Log2(r, e1, e2) == [trace EXCEPT ![r] = Append(Append(@, e1), e2)]

\* A handler whose 400 branch lacks the return: it answers 400 and goes on to
\* start the session.
ReceiveNoReturn(r) ==
  /\ hpc[r] = "idle"
  /\ r > 1 => hpc[r - 1] # "idle"
  /\ \E b \in Bodies :
       /\ body' = [body EXCEPT ![r] = b]
       /\ hpc' = [hpc EXCEPT ![r] = "awaiting"]
       /\ spc' = [spc EXCEPT ![r] = "launch"]
       /\ IF Valid(b)
          THEN /\ resp' = resp
               /\ trace' = Log2(r, E("received"), E("session_started"))
          ELSE /\ resp' = SendJson(r, Json400)
               /\ trace' = Log2(r, E("received"), E("session_started"))
  /\ UNCHANGED <<frontend, service, clock, files, sess, result>>

\* A request arrives and the handler runs up to its first await: it validates
\* the body and either answers 400 or calls chatGPTInteraction, which runs up
\* to chromium.launch().  Requests are numbered in order of arrival.
Receive(r) ==
  /\ hpc[r] = "idle"
  /\ r > 1 => hpc[r - 1] # "idle"
  /\ \E b \in Bodies :
       /\ body' = [body EXCEPT ![r] = b]
       /\ IF Valid(b)
          THEN /\ hpc' = [hpc EXCEPT ![r] = "awaiting"]
               /\ spc' = [spc EXCEPT ![r] = "launch"]
               /\ resp' = resp
               /\ trace' = Log2(r, E("received"), E("session_started"))
          ELSE /\ hpc' = [hpc EXCEPT ![r] = "done"]
               /\ spc' = spc
               /\ resp' = SendJson(r, Json400)
               /\ trace' = Log2(r, E("received"), E("respond"))
  /\ UNCHANGED <<frontend, service, clock, files, sess, result>>

\* The awaited promise settled: the try block answers 200 with the result, the
\* catch block answers 500 with the error.
Respond(r) ==
  /\ hpc[r] = "awaiting"
  /\ Awaited(r)
  /\ resp' = SendJson(r, IF result[r].kind = "thrown"
                         THEN Json500(result[r]) ELSE Json200(result[r]))
  /\ hpc' = [hpc EXCEPT ![r] = "done"]
  /\ trace' = Log(r, E("respond"))
  /\ UNCHANGED <<frontend, service, clock, files, body, spc, sess, result>>

\* ------------------------------------------------- session: common helpers
Thrown(msg) == [NoResult EXCEPT !.kind = "thrown", !.error = msg]

\* Control leaves the try block with a return value or an error: its locals
\* are gone, the browser handle and the pending outcome remain.
Unwind(s, out) == [NoSess EXCEPT !.browser = s.browser, !.outcome = out]

\* The session moves from one await to the next.
Goto(r, to) == spc' = [spc EXCEPT ![r] = to]

\* A launch that keeps the browser in a module-level variable, which every
\* request in flight then sees.
LaunchShared(r) ==
  /\ spc[r] = "launch"
  /\ \/ /\ sess' = [q \in Reqs |-> [sess[q] EXCEPT !.browser = "open"]]
        /\ Goto(r, IF service = "login" THEN "goto" ELSE "nav_main")
        /\ trace' = Log(r, E("launch"))
        /\ result' = result
     \/ /\ Goto(r, "settled")
        /\ result' = [result EXCEPT ![r] = Thrown("browser launch failed")]
        /\ trace' = Log2(r, E("opfail"), E("settled"))
        /\ \E b \in {"none", "open"} : sess' = [sess EXCEPT ![r].browser = b]
  /\ UNCHANGED <<frontend, service, clock, files, body, hpc, resp>>

\* chromium.launch, browser.newContext, context.newPage: these precede the try
\* block, so a failure rejects the promise at once.
Launch(r) ==
  /\ spc[r] = "launch"
  /\ \/ /\ sess' = [sess EXCEPT ![r].browser = "open"]
        /\ Goto(r, IF service = "login" THEN "goto" ELSE "nav_main")
        /\ trace' = Log(r, E("launch"))
        /\ result' = result
     \/ /\ Goto(r, "settled")
        /\ result' = [result EXCEPT ![r] = Thrown("browser launch failed")]
        /\ trace' = Log2(r, E("opfail"), E("settled"))
        /\ \E b \in {"none", "open"} : sess' = [sess EXCEPT ![r].browser = b]
  /\ UNCHANGED <<frontend, service, clock, files, body, hpc, resp>>

\* --------------------------------------- login service (chatgpt-service.js)
\* An awaited browser operation inside the try block rejects: the catch block
\* rethrows and the finally block closes the browser.
LoginThrow(r, msg) ==
  /\ Goto(r, "closing")
  /\ sess' = [sess EXCEPT ![r] = Unwind(@, Thrown(msg))]
  /\ trace' = Log(r, E("opfail"))

\* A step of the login flow that only drives the page.
PageStep(r, from, to, msg) ==
  /\ service = "login"
  /\ spc[r] = from
  /\ \/ Goto(r, to) /\ UNCHANGED <<sess, trace>>
     \/ LoginThrow(r, msg)
  /\ UNCHANGED <<frontend, service, clock, files, body, hpc, result, resp>>

\* page.goto(login), waitForSelector and click of the Log in button.
OpenLoginPage(r) == PageStep(r, "goto", "email", "TimeoutError")

\* waitForSelector, fill and submit of the username field.  page.fill takes a
\* string: with email undefined it rejects, like any other failure of the step.
SubmitEmail(r) ==
  /\ service = "login"
  /\ spc[r] = "email"
  /\ \/ /\ body[r].email # Missing
        /\ Goto(r, "captcha1")
        /\ sess' = [sess EXCEPT ![r].username = body[r].email]
        /\ trace' = trace
     \/ LoginThrow(r, "TimeoutError")
  /\ UNCHANGED <<frontend, service, clock, files, body, hpc, result, resp>>

\* checkForCaptcha(page): TRUE when a CAPTCHA selector or word is on the page.
CheckCaptcha(r, from, solve, to) ==
  /\ service = "login"
  /\ spc[r] = from
  /\ \/ \E hasCaptcha \in BOOLEAN :
          Goto(r, IF hasCaptcha THEN solve ELSE to) /\ UNCHANGED <<sess, trace>>
     \/ LoginThrow(r, "TimeoutError")
  /\ UNCHANGED <<frontend, service, clock, files, body, hpc, result, resp>>

CaptchaAfterEmail(r) == CheckCaptcha(r, "captcha1", "solve1", "password")
\* A CAPTCHA branch that does not wait: it goes on to fill the password field
\* at once.
SolveAfterEmailNoWait(r) ==
  /\ service = "login"
  /\ spc[r] = "solve1"
  /\ \/ /\ body[r].password # Missing
        /\ Goto(r, "captcha2")
        /\ sess' = [sess EXCEPT ![r].password = body[r].password]
        /\ trace' = trace
     \/ LoginThrow(r, "TimeoutError")
  /\ UNCHANGED <<frontend, service, clock, files, body, hpc, result, resp>>

\* waitForCaptchaSolution(page, 'input[name="password"]')
SolveAfterEmail(r) == PageStep(r, "solve1", "password", "TimeoutError")
\* waitForSelector, fill and submit of the password field; page.fill rejects
\* when password is undefined.
SubmitPassword(r) ==
  /\ service = "login"
  /\ spc[r] = "password"
  /\ \/ /\ body[r].password # Missing
        /\ Goto(r, "captcha2")
        /\ sess' = [sess EXCEPT ![r].password = body[r].password]
        /\ trace' = trace
     \/ LoginThrow(r, "TimeoutError")
  /\ UNCHANGED <<frontend, service, clock, files, body, hpc, result, resp>>
CaptchaAfterPassword(r) == CheckCaptcha(r, "captcha2", "solve2", "textarea")
\* waitForCaptchaSolution(page, 'textarea[data-id="root"]')
SolveAfterPassword(r) == PageStep(r, "solve2", "textarea", "TimeoutError")
\* waitForSelector('textarea[data-id="root"]')
WaitChat(r) == PageStep(r, "textarea", "submit_initial", "TimeoutError")

\* page.fill(textarea, prompt) and page.press(textarea, 'Enter'): the page
\* starts to stream its answer.
LoginSubmit(r, from, to, ev, prompt) ==
  /\ service = "login"
  /\ spc[r] = from
  /\ \/ /\ Goto(r, to)
        /\ trace' = Log(r, [E(ev) EXCEPT !.prompt = prompt])
        /\ sess' = [sess EXCEPT ![r].streaming = TRUE]
     \/ LoginThrow(r, "TimeoutError")
  /\ UNCHANGED <<frontend, service, clock, files, body, hpc, result, resp>>

LoginSubmitInitial(r) == LoginSubmit(r, "submit_initial", "wait_initial", "submit_initial", body[r].initialPrompt)
\* A wait without a timeout: while the indicator stays on the page its promise
\* never settles and the session waits for good.
LoginWaitNoTimeout(r, from, to) ==
  /\ service = "login"
  /\ spc[r] = from
  /\ \/ /\ Goto(r, to)
        /\ sess' = [sess EXCEPT ![r].streaming = FALSE]
        /\ trace' = trace
     \/ /\ Goto(r, "waiting")
        /\ UNCHANGED <<sess, trace>>
  /\ UNCHANGED <<frontend, service, clock, files, body, hpc, result, resp>>

\* waitForFunction(no '.result-streaming', { timeout: 60000 }): it resolves once
\* no indicator is on the page and rejects when the timeout comes first.
LoginWait(r, from, to) ==
  /\ service = "login"
  /\ spc[r] = from
  /\ \/ /\ Goto(r, to)
        /\ sess' = [sess EXCEPT ![r].streaming = FALSE]
        /\ trace' = trace
     \/ LoginThrow(r, "TimeoutError")
  /\ UNCHANGED <<frontend, service, clock, files, body, hpc, result, resp>>

\* waitForSelector('.markdown') and waitForFunction(no '.result-streaming').
LoginWaitInitial(r) == LoginWait(r, "wait_initial", "extract_initial")

\* page.evaluate: innerText of the last '.markdown' element.
LoginExtractInitial(r) ==
  /\ service = "login"
  /\ spc[r] = "extract_initial"
  /\ \/ \E t \in PageTexts :
          /\ sess' = [sess EXCEPT ![r].initialResponse = t]
          /\ Goto(r, "save_initial")
          /\ trace' = Log(r, [E("extract_initial") EXCEPT !.response = t])
     \/ LoginThrow(r, "TypeError")
  /\ UNCHANGED <<frontend, service, clock, files, body, hpc, result, resp>>

\* saveResponseToCsv, up to its await: the path is built from the type and the
\* current time, and the record carries the prompt, the response and the time
\* (read again in the same run of synchronous code, taken as the same instant).
SaveBegin(r, from, to, type, prompt, response) ==
  /\ spc[r] = from
  /\ \E t \in Now :
       /\ sess' = [sess EXCEPT ![r].filePath = CsvPath(type, t),
                     ![r].record = [prompt |-> prompt, response |-> response,
                                    timestamp |-> t]]
       /\ clock' = t
  /\ Goto(r, to)
  /\ UNCHANGED <<frontend, service, files, body, hpc, result, resp, trace>>

\* The event of a completed write: the record and the path it went to.
WriteEvent(name, s) ==
  [ev |-> name, prompt |-> s.record.prompt, response |-> s.record.response,
   path |-> s.filePath]

\* An initial save whose record carries the account email as its prompt.
LoginSaveInitialEmail(r) ==
  /\ service = "login"
  /\ SaveBegin(r, "save_initial", "write_initial", "initial",
               body[r].email, sess[r].initialResponse)

\* The record the initial turn saves, and the one the reply turn saves.
LoginSaveInitial(r) ==
  /\ service = "login"
  /\ SaveBegin(r, "save_initial", "write_initial", "initial",
               body[r].initialPrompt, sess[r].initialResponse)

\* A reply save that passes the initial response.
LoginSaveReplyInitialResponse(r) ==
  /\ service = "login"
  /\ SaveBegin(r, "save_reply", "write_reply", "reply",
               body[r].replyPrompt, sess[r].initialResponse)

LoginSaveReply(r) ==
  /\ service = "login"
  /\ SaveBegin(r, "save_reply", "write_reply", "reply",
               body[r].replyPrompt, sess[r].replyResponse)

\* The awaited writeRecords completes and saveResponseToCsv returns filePath,
\* or the write fails and leaves the file as it was.
LoginWriteInitial(r) ==
  /\ service = "login"
  /\ spc[r] = "write_initial"
  /\ \/ /\ files' = [files EXCEPT ![sess[r].filePath] =
                       WriteRecords(@, <<sess[r].record>>)]
        /\ sess' = [sess EXCEPT ![r].initialCsvPath = sess[r].filePath]
        /\ Goto(r, IF Truthy(body[r].replyPrompt) THEN "submit_reply" ELSE "sleep")
        /\ trace' = Log(r, WriteEvent("write_initial", sess[r]))
     \/ /\ files' = files
        /\ LoginThrow(r, "Error: writeRecords")
  /\ UNCHANGED <<frontend, service, clock, body, hpc, result, resp>>

LoginSubmitReply(r) ==
  LoginSubmit(r, "submit_reply", "wait_reply", "submit_reply", body[r].replyPrompt)
\* waitForFunction(more '.markdown' than '.request-message'), then no streaming.
LoginWaitReply(r) == LoginWait(r, "wait_reply", "extract_reply")

LoginExtractReply(r) ==
  /\ service = "login"
  /\ spc[r] = "extract_reply"
  /\ \/ \E t \in ReplyTexts :
          /\ sess' = [sess EXCEPT ![r].replyResponse = t]
          /\ Goto(r, "save_reply")
          /\ trace' = Log(r, [E("extract_reply") EXCEPT !.response = t])
     \/ LoginThrow(r, "TypeError")
  /\ UNCHANGED <<frontend, service, clock, files, body, hpc, result, resp>>

LoginWriteReply(r) ==
  /\ service = "login"
  /\ spc[r] = "write_reply"
  /\ \/ /\ files' = [files EXCEPT ![sess[r].filePath] =
                       WriteRecords(@, <<sess[r].record>>)]
        /\ sess' = [sess EXCEPT ![r].replyCsvPath = sess[r].filePath]
        /\ Goto(r, "sleep")
        /\ trace' = Log(r, WriteEvent("write_reply", sess[r]))
     \/ /\ files' = files
        /\ LoginThrow(r, "Error: writeRecords")
  /\ UNCHANGED <<frontend, service, clock, body, hpc, result, resp>>

\* The object the login service returns.
LoginReturn(s) ==
  [NoResult EXCEPT !.kind = "returned", !.success = TRUE,
     !.initialResponse = s.initialResponse, !.replyResponse = s.replyResponse,
     !.initialCsvPath = s.initialCsvPath, !.replyCsvPath = s.replyCsvPath]

\* The 2000 ms timer fires and the return statement runs; time has passed.
LoginSleep(r) ==
  /\ service = "login"
  /\ spc[r] = "sleep"
  /\ clock' = clock + 1
  /\ sess' = [sess EXCEPT ![r] = Unwind(@, LoginReturn(@))]
  /\ Goto(r, "closing")
  /\ UNCHANGED <<frontend, service, files, body, hpc, result, resp, trace>>

\* finally { await browser.close() }: then the promise settles with the pending
\* return value or error; an error of close itself replaces either.
LoginClose(r) ==
  /\ service = "login"
  /\ spc[r] = "closing"
  /\ \/ /\ sess' = [sess EXCEPT ![r] = Unwind([@ EXCEPT !.browser = "closed"], NoResult)]
        /\ result' = [result EXCEPT ![r] = sess[r].outcome]
     \/ /\ sess' = [sess EXCEPT ![r] = Unwind(@, NoResult)]
        /\ result' = [result EXCEPT ![r] = Thrown("Error: browser.close")]
  /\ Goto(r, "settled")
  /\ trace' = Log(r, E("settled"))
  /\ UNCHANGED <<frontend, service, clock, files, body, hpc, resp>>

\* ------------------------- direct-access service (services/chatgpt-service.js)
\* An error reaches the outer catch block, which returns { success: false,
\* error }; the finally block leaves the browser open (its close call is
\* commented out).
DirectFailure(msg) ==
  [NoResult EXCEPT !.kind = "returned", !.success = FALSE, !.error = msg]

DirectCatch(r, msg) ==
  /\ Goto(r, "settled")
  /\ result' = [result EXCEPT ![r] = DirectFailure(msg)]
  /\ sess' = [sess EXCEPT ![r] = Unwind(@, NoResult)]

\* The stages of the navigation, in the order the code tries them.
StageOrder == <<"main", "direct", "gallery", "official">>
\* What a finished stage or approach leaves behind: its name and whether it
\* reached a chat interface (found an input).
Outcome(name, found) == [step |-> name, found |-> found]

\* const officialSites = [ ... ]: five URLs.
NumOfficialSites == 5
\* for (let attempt = 1; attempt <= 3; attempt++)
MaxAttempts == 3

\* page.goto('https://chat.openai.com') and the probes that follow it.  When
\* the page has a textarea or an editable div, mainSiteAccessSuccessful is
\* set; a rejected goto or probe is caught by the catch block of the stage.
NavMain(r) ==
  /\ service = "direct"
  /\ spc[r] = "nav_main"
  /\ \/ \E h \in BOOLEAN :
          /\ sess' = [sess EXCEPT ![r].hasChatInterface = h,
                                  ![r].mainSiteAccessSuccessful = h]
          /\ Goto(r, "nav_main_login")
     \/ /\ sess' = [sess EXCEPT ![r].stages = Append(@, Outcome("main", FALSE))]
        /\ Goto(r, "nav_direct")
  /\ UNCHANGED <<frontend, service, clock, files, body, hpc, result, resp, trace>>

\* A login-page branch that assigns its own finding to the flag, whatever the
\* flag was.
NavMainLoginResets(r) ==
  /\ service = "direct"
  /\ spc[r] = "nav_main_login"
  /\ \E found \in BOOLEAN :
       /\ sess' = [sess EXCEPT ![r].mainSiteAccessSuccessful = found,
                               ![r].stages = Append(@, Outcome("main", found))]
       /\ Goto(r, IF found THEN "initial_load" ELSE "nav_direct")
  /\ UNCHANGED <<frontend, service, clock, files, body, hpc, result, resp, trace>>

\* The login-page branch of the main-site stage (public access buttons, an
\* existing session, the share URL) can only set mainSiteAccessSuccessful;
\* then if (mainSiteAccessSuccessful) decides whether the fallbacks run.
NavMainLogin(r) ==
  /\ service = "direct"
  /\ spc[r] = "nav_main_login"
  /\ \E found \in BOOLEAN :
       LET ok == sess[r].mainSiteAccessSuccessful \/ found
       IN  /\ sess' = [sess EXCEPT ![r].mainSiteAccessSuccessful = ok,
                                   ![r].stages = Append(@, Outcome("main", ok))]
           /\ Goto(r, IF ok THEN "initial_load" ELSE "nav_direct")
  /\ UNCHANGED <<frontend, service, clock, files, body, hpc, result, resp, trace>>

\* A fallback stage that goes on to the next stage whatever it found.
NavStageFallsThrough(r, from, stage, notFound) ==
  /\ service = "direct"
  /\ spc[r] = from
  /\ \E found \in BOOLEAN :
       /\ sess' = [sess EXCEPT ![r].stages = Append(@, Outcome(stage, found)),
                     ![r].site = IF notFound = "nav_official" THEN 1 ELSE 0,
                     ![r].attempt = IF notFound = "nav_official" THEN 1 ELSE 0]
       /\ Goto(r, notFound)
  /\ UNCHANGED <<frontend, service, clock, files, body, hpc, result, resp, trace>>

\* A fallback stage: it reaches a chat interface, or it does not and the next
\* stage starts; the errors of a stage are caught inside it.  The stage before
\* the official sites starts their loop at the first site, first attempt.
NavStage(r, from, stage, notFound) ==
  /\ service = "direct"
  /\ spc[r] = from
  /\ \/ /\ sess' = [sess EXCEPT ![r].stages = Append(@, Outcome(stage, TRUE))]
        /\ Goto(r, "initial_load")
     \/ /\ sess' = [sess EXCEPT ![r].stages = Append(@, Outcome(stage, FALSE)),
                      ![r].site = IF notFound = "nav_official" THEN 1 ELSE 0,
                      ![r].attempt = IF notFound = "nav_official" THEN 1 ELSE 0]
        /\ Goto(r, notFound)
  /\ UNCHANGED <<frontend, service, clock, files, body, hpc, result, resp, trace>>

\* page.goto('https://chat.openai.com/chat')
NavDirectChat(r) == NavStage(r, "nav_direct", "direct", "nav_gallery")
\* tryAccessGPT(page)
NavGallery(r) == NavStage(r, "nav_gallery", "gallery", "nav_official")

\* An attempt counter that allows one attempt more per site.
NextAttemptOneMore(site, attempt) ==
  IF attempt <= MaxAttempts THEN <<site, attempt + 1>> ELSE <<site + 1, 1>>

\* The two for loops: the next attempt at the same site, or the first attempt
\* at the next site.
NextAttempt(site, attempt) ==
  IF attempt < MaxAttempts THEN <<site, attempt + 1>> ELSE <<site + 1, 1>>

\* One attempt at one official site: the site loads with an input (at once or
\* after a click on a chat button) and both loops are left, their counters
\* with them, or it does not (or
\* the attempt throws, which is caught) and the next attempt follows; after the
\* last attempt at the last site the error is thrown to the outer catch block.
NavOfficial(r) ==
  /\ service = "direct"
  /\ spc[r] = "nav_official"
  /\ \/ /\ sess' = [sess EXCEPT ![r].stages = Append(@, Outcome("official", TRUE)),
                      ![r].site = 0, ![r].attempt = 0]
        /\ Goto(r, "initial_load")
        /\ UNCHANGED <<result, trace>>
     \/ LET n == NextAttempt(sess[r].site, sess[r].attempt)
        IN  IF n[1] <= NumOfficialSites
            THEN /\ sess' = [sess EXCEPT ![r].site = n[1], ![r].attempt = n[2]]
                 /\ UNCHANGED <<spc, result, trace>>
            ELSE /\ DirectCatch(r, "Failed to access any official ChatGPT interface")
                 /\ trace' = Log2(r, E("opfail"), E("settled"))
  /\ UNCHANGED <<frontend, service, clock, files, body, hpc, resp>>

\* debugScreenshot(page, 'initial_load') and the delay after it: the locals of
\* the navigation are not used again.
InitialLoad(r) ==
  /\ service = "direct"
  /\ spc[r] = "initial_load"
  /\ sess' = [sess EXCEPT ![r].stages = <<>>,
                ![r].hasChatInterface = FALSE,
                ![r].mainSiteAccessSuccessful = FALSE,
                ![r].selector = 1]
  /\ Goto(r, "find_input")
  /\ UNCHANGED <<frontend, service, clock, files, body, hpc, result, resp, trace>>

\* An error inside the inner try block: its catch block rethrows it as 'Could
\* not access the chat interface: ...' to the outer catch block.
DirectThrowMsg(r, msg) ==
  /\ DirectCatch(r, msg)
  /\ trace' = Log2(r, E("opfail"), E("settled"))

DirectThrow(r) == DirectThrowMsg(r, "Could not access the chat interface")

\* const chatInputSelectors = [ ... ]
ChatInputSelectors ==
  <<"textarea[data-id=root]", "textarea[placeholder*=Send a message]",
    "textarea[placeholder*=Message ChatGPT]", "textarea[placeholder*=Ask anything]",
    "textarea[placeholder*=Chat with GPT]", "textarea.chat-input",
    "div[role=textbox]", "div[contenteditable=true]", "textarea",
    "form textarea", "input[type=text]">>
\* The selectors of the list that the page can match.
PageSelectors == {1, 9}
\* for (let i = 0; i < 10; i++) await page.keyboard.press('Tab')
MaxTabPresses == 10
\* The four approaches, in the order the code tries them.
ApproachOrder == <<"selectors", "form", "bottom", "keyboard">>
NoInputMsg ==
  "Could not access the chat interface: Could not find any usable chat input interface"

\* The input is found: chatInputFound = true with the selector to use
\* (undefined when only the keyboard focus is known).
Found(r, approach, sel) ==
  /\ sess' = [sess EXCEPT ![r].chatInputSelector = sel, ![r].tabs = 0,
                ![r].approaches = Append(@, Outcome(approach, TRUE))]
  /\ Goto(r, "input_found")

\* An approach ends without an input and the next one starts.
NotFound(r, approach, to) ==
  /\ sess' = [sess EXCEPT ![r].approaches = Append(@, Outcome(approach, FALSE))]
  /\ Goto(r, to)

\* A selector loop without the break: it goes on to the form approach after a
\* selector matched.
FindInputNoBreak(r) ==
  /\ service = "direct"
  /\ spc[r] = "find_input"
  /\ \/ /\ sess[r].selector \in PageSelectors
        /\ sess' = [sess EXCEPT ![r].chatInputSelector = ChatInputSelectors[sess[r].selector],
                      ![r].approaches = Append(@, Outcome("selectors", TRUE))]
        /\ Goto(r, "find_form")
     \/ IF sess[r].selector < Len(ChatInputSelectors)
        THEN /\ sess' = [sess EXCEPT ![r].selector = @ + 1,
                           ![r].absent = @ \cup {sess[r].selector}]
             /\ spc' = spc
        ELSE NotFound(r, "selectors", "find_form")
  /\ UNCHANGED <<frontend, service, clock, files, body, hpc, result, resp, trace>>

\* Approach 1, one turn of the loop over chatInputSelectors: the selector
\* exists and is visible, which ends the loop, or it is absent, hidden or its
\* probe throws, and the next selector is tried.
FindInput(r) ==
  /\ service = "direct"
  /\ spc[r] = "find_input"
  /\ \/ /\ sess[r].selector \in PageSelectors
        /\ Found(r, "selectors", ChatInputSelectors[sess[r].selector])
     \/ IF sess[r].selector < Len(ChatInputSelectors)
        THEN /\ sess' = [sess EXCEPT ![r].selector = @ + 1,
                           ![r].absent = @ \cup {sess[r].selector}]
             /\ spc' = spc
        ELSE /\ sess' = [sess EXCEPT ![r].absent = @ \cup {sess[r].selector},
                           ![r].approaches = Append(@, Outcome("selectors", FALSE))]
             /\ Goto(r, "find_form")
  /\ UNCHANGED <<frontend, service, clock, files, body, hpc, result, resp, trace>>

\* Approach 2: a visible input inside a form, addressed by a selector built
\* from its id, class, placeholder, role or path.
FindInForm(r) ==
  /\ service = "direct"
  /\ spc[r] = "find_form"
  /\ \/ Found(r, "form", "custom selector")
     \/ NotFound(r, "form", "find_bottom")
  /\ UNCHANGED <<frontend, service, clock, files, body, hpc, result, resp, trace>>

\* Approach 3: a clickable area in the bottom part of the page; the input the
\* click reveals, or else the area itself, becomes the selector.
FindAtBottom(r) ==
  /\ service = "direct"
  /\ spc[r] = "find_bottom"
  /\ \/ Found(r, "bottom", "bottom selector")
     \/ NotFound(r, "bottom", "find_keyboard")
  /\ UNCHANGED <<frontend, service, clock, files, body, hpc, result, resp, trace>>

\* Approach 4, one press of Tab: the focused element is an input, which ends
\* the loop with chatInputSelector undefined, or it is not and Tab is pressed
\* again; after the last press, or when a keyboard operation throws, nothing
\* was found and 'Could not find any usable chat input interface' is thrown.
FindByKeyboard(r) ==
  /\ service = "direct"
  /\ spc[r] = "find_keyboard"
  /\ \/ /\ Found(r, "keyboard", Null)
        /\ UNCHANGED <<result, trace>>
     \/ /\ sess[r].tabs + 1 < MaxTabPresses
        /\ sess' = [sess EXCEPT ![r].tabs = @ + 1]
        /\ UNCHANGED <<spc, result, trace>>
     \/ DirectThrowMsg(r, NoInputMsg)
  /\ UNCHANGED <<frontend, service, clock, files, body, hpc, resp>>

\* The loop that clicks Accept, Continue, Skip, Get Started and I agree
\* buttons: the bookkeeping of the search is not used again.
InputFound(r) ==
  /\ service = "direct"
  /\ spc[r] = "input_found"
  /\ \/ /\ sess' = [sess EXCEPT ![r].approaches = <<>>, ![r].absent = {},
                      ![r].selector = 0]
        /\ Goto(r, "type_initial")
        /\ UNCHANGED <<result, trace>>
     \/ DirectThrow(r)
  /\ UNCHANGED <<frontend, service, clock, files, body, hpc, resp>>

\* humanTyping of the initial prompt, or typing on the keyboard directly.
TypeInitial(r) ==
  /\ service = "direct"
  /\ spc[r] = "type_initial"
  /\ \/ Goto(r, "send_initial") /\ UNCHANGED <<sess, result, trace>>
     \/ DirectThrow(r)
  /\ UNCHANGED <<frontend, service, clock, files, body, hpc, resp>>

\* The send button is clicked or Enter is pressed: the page starts to stream.
\* The page shows a CAPTCHA at that moment or it does not: nothing in the
\* direct-access flow looks for one (checkForCaptcha and
\* waitForCaptchaSolution are defined but never called).
SendInitial(r) ==
  /\ service = "direct"
  /\ spc[r] = "send_initial"
  /\ \/ /\ Goto(r, "wait_initial")
        /\ trace' = Log(r, [E("submit_initial") EXCEPT !.prompt = body[r].initialPrompt])
        /\ \E c \in BOOLEAN :
             sess' = [sess EXCEPT ![r].streaming = TRUE, ![r].captcha = c]
        /\ result' = result
     \/ DirectThrow(r)
  /\ UNCHANGED <<frontend, service, clock, files, body, hpc, resp>>

\* The waits for a response element and for the loading indicators to go: each
\* catches its own rejection ('Timeout waiting for typing to finish, but
\* continuing anyway...'), so the session goes on whether the indicators have
\* gone or are still on the page.  What the page showed when the prompt was
\* sent is not followed further.
DirectWaitInitial(r) ==
  /\ service = "direct"
  /\ spc[r] = "wait_initial"
  /\ Goto(r, "extract_initial")
  /\ \E s \in BOOLEAN : sess' = [sess EXCEPT ![r].streaming = s, ![r].captcha = FALSE]
  /\ UNCHANGED <<frontend, service, clock, files, body, hpc, result, resp, trace>>

\* What the catch block of the extraction stores as the response.
ExtractionErrorText == "Error extracting response"

\* The extraction of the initial response: a text of the page, or, when
\* page.evaluate fails, the error text; only the screenshot taken after such an
\* error can make the session fail here.  The indicators of the page are not
\* looked at again, and the selector is used again only to type a reply.
SelectorFor(r, sel) == IF Truthy(body[r].replyPrompt) THEN sel ELSE Null

DirectExtractInitial(r) ==
  /\ service = "direct"
  /\ spc[r] = "extract_initial"
  /\ \/ /\ \E t \in PageTexts :
             /\ sess' = [sess EXCEPT ![r].initialResponse = t, ![r].streaming = FALSE,
                           ![r].chatInputSelector = SelectorFor(r, @)]
             /\ trace' = Log(r, [E("extract_initial") EXCEPT !.response = t])
        /\ Goto(r, IF Truthy(body[r].replyPrompt) THEN "type_reply" ELSE "complete")
        /\ result' = result
     \/ /\ sess' = [sess EXCEPT ![r].initialResponse = ExtractionErrorText,
                      ![r].streaming = FALSE,
                      ![r].chatInputSelector = SelectorFor(r, @)]
        /\ trace' = Log(r, E("opfail"))
        /\ Goto(r, IF Truthy(body[r].replyPrompt) THEN "type_reply" ELSE "complete")
        /\ result' = result
     \/ DirectThrow(r)
  /\ UNCHANGED <<frontend, service, clock, files, body, hpc, resp>>

\* humanTyping(page, chatInputSelector, replyPrompt): it needs a selector.
TypeReply(r) ==
  /\ service = "direct"
  /\ spc[r] = "type_reply"
  /\ \/ /\ sess[r].chatInputSelector # Null
        /\ Goto(r, "send_reply")
        /\ trace' = Log(r, [E("type_reply") EXCEPT !.prompt = body[r].replyPrompt])
        /\ UNCHANGED <<sess, result>>
     \/ DirectThrow(r)
  /\ UNCHANGED <<frontend, service, clock, files, body, hpc, resp>>

\* sendMessage(page, chatInputSelector, sendButtonSelector): no function of
\* that name is defined in the module, so the call throws a ReferenceError.
SendReply(r) ==
  /\ service = "direct"
  /\ spc[r] = "send_reply"
  /\ DirectCatch(r, "Could not access the chat interface")
  /\ trace' = Log(r, E("settled"))
  /\ UNCHANGED <<frontend, service, clock, files, body, hpc, resp>>

\* The object the direct-access service returns.
DirectReturn(s) ==
  [NoResult EXCEPT !.kind = "returned", !.success = TRUE,
     !.initialResponse = s.initialResponse, !.replyResponse = s.replyResponse,
     !.initialCsvPath = EmptyPath, !.replyCsvPath = s.replyCsvPath]

\* The interaction is complete and the result is returned.
DirectComplete(r) ==
  /\ service = "direct"
  /\ spc[r] = "complete"
  /\ result' = [result EXCEPT ![r] = DirectReturn(sess[r])]
  /\ sess' = [sess EXCEPT ![r] = Unwind(@, NoResult)]
  /\ Goto(r, "settled")
  /\ trace' = Log(r, E("settled"))
  /\ UNCHANGED <<frontend, service, clock, files, body, hpc, resp>>

Next ==
  \/ \E r \in Reqs : Receive(r) \/ Respond(r) \/ Launch(r)
  \/ \E r \in Reqs : OpenLoginPage(r) \/ SubmitEmail(r) \/ CaptchaAfterEmail(r)
  \/ \E r \in Reqs : SolveAfterEmail(r) \/ SubmitPassword(r)
  \/ \E r \in Reqs : CaptchaAfterPassword(r) \/ SolveAfterPassword(r)
  \/ \E r \in Reqs : WaitChat(r) \/ LoginSubmitInitial(r) \/ LoginWaitInitial(r)
  \/ \E r \in Reqs : LoginExtractInitial(r) \/ LoginSaveInitial(r) \/ LoginWriteInitial(r)
  \/ \E r \in Reqs : LoginSubmitReply(r) \/ LoginWaitReply(r) \/ LoginExtractReply(r)
  \/ \E r \in Reqs : LoginSaveReply(r) \/ LoginWriteReply(r)
  \/ \E r \in Reqs : LoginSleep(r) \/ LoginClose(r)
  \/ \E r \in Reqs : NavMain(r) \/ NavMainLogin(r) \/ NavDirectChat(r)
  \/ \E r \in Reqs : NavGallery(r) \/ NavOfficial(r) \/ InitialLoad(r)
  \/ \E r \in Reqs : FindInput(r) \/ FindInForm(r) \/ FindAtBottom(r)
  \/ \E r \in Reqs : FindByKeyboard(r) \/ InputFound(r)
  \/ \E r \in Reqs : TypeInitial(r) \/ SendInitial(r)
  \/ \E r \in Reqs : DirectWaitInitial(r) \/ DirectExtractInitial(r)
  \/ \E r \in Reqs : TypeReply(r) \/ SendReply(r) \/ DirectComplete(r)

Spec == Init /\ [][Next]_vars

\* ------------------------------------------------------------------ claims
Events(r, name) == {i \in 1..Len(trace[r]) : trace[r][i].ev = name}
Has(r, name) == Events(r, name) # {}
WriteEvents(r) == Events(r, "write_initial") \cup Events(r, "write_reply")
\* The promise of the session settled with a result that says success.
Succeeded(r) == result[r].kind = "returned" /\ result[r].success
\* The promise settled otherwise: it rejected, or its result says failure.
Failed(r) == result[r].kind = "thrown" \/ (result[r].kind = "returned" /\ ~result[r].success)
Responded(r) == hpc[r] = "done"

\* C1: a session that ends successfully has performed exactly one persistence
\* write for the initial response, and one for the reply response if and only
\* if a non-empty reply prompt was given.
C1_OneWritePerResponse ==
  \A r \in Reqs :
    Succeeded(r) =>
      /\ Cardinality(Events(r, "write_initial")) = 1
      /\ Cardinality(Events(r, "write_reply")) =
           (IF Truthy(body[r].replyPrompt) THEN 1 ELSE 0)

\* C2: the events of a request occur in the order received, session started,
\* persistence writes, session settled, response sent: the response is the
\* last event, it is not sent while the session is unsettled, and every write
\* lies between the start and the settling of the session.
C2_RequestOrder ==
  \A r \in Reqs :
    /\ trace[r] # <<>> => trace[r][1].ev = "received"
    /\ \A i \in Events(r, "respond") :
         /\ i = Len(trace[r])
         /\ Has(r, "session_started") => \E j \in Events(r, "settled") : j < i
    /\ \A i \in WriteEvents(r) :
         /\ \E j \in Events(r, "session_started") : j < i
         /\ \A j \in Events(r, "settled") : i < j
    /\ Responded(r) => spc[r] \in {"none", "settled"}

\* C2 witness: a request whose session wrote a file has been answered.
C2_Witness ==
  \E r \in Reqs : Responded(r) /\ Has(r, "write_initial") /\ Len(resp[r]) = 1

\* The last response extracted before event i of request r, for one turn.
LastExtract(r, name, i) ==
  LET js == {j \in Events(r, name) : j < i}
  IN  IF js = {} THEN Null
      ELSE trace[r][CHOOSE j \in js : \A k \in js : k <= j].response

\* C3: the record written with type 'initial' holds the initial prompt and the
\* response extracted for it, the record written with type 'reply' holds the
\* reply prompt and the response extracted for it, each with a timestamp, and
\* the stored response is the one returned to the caller.
C3_RecordPairsPromptWithItsResponse ==
  \A r \in Reqs :
    /\ \A i \in Events(r, "write_initial") :
         /\ trace[r][i].path.type = "initial"
         /\ trace[r][i].prompt = body[r].initialPrompt
         /\ trace[r][i].response = LastExtract(r, "extract_initial", i)
         /\ Succeeded(r) => result[r].initialResponse = trace[r][i].response
         /\ (Responded(r) /\ Succeeded(r)) =>
              resp[r][1].initialResponse = trace[r][i].response
    /\ \A i \in Events(r, "write_reply") :
         /\ trace[r][i].path.type = "reply"
         /\ trace[r][i].prompt = body[r].replyPrompt
         /\ trace[r][i].response = LastExtract(r, "extract_reply", i)
         /\ Succeeded(r) => result[r].replyResponse = trace[r][i].response
         /\ (Responded(r) /\ Succeeded(r)) =>
              resp[r][1].replyResponse = trace[r][i].response
    /\ \A p \in Paths : \A k \in 1..Len(files[p].rows) :
         /\ files[p].rows[k].timestamp >= 0
         /\ \E q \in Reqs : \E i \in WriteEvents(q) :
              /\ trace[q][i].path = p
              /\ trace[q][i].prompt = files[p].rows[k].prompt
              /\ trace[q][i].response = files[p].rows[k].response

\* C3 witness: a two-turn session returned two different responses and both
\* of its records are on disk.
C3_Witness ==
  \E r \in Reqs :
    /\ Responded(r) /\ Succeeded(r)
    /\ Has(r, "write_initial") /\ Has(r, "write_reply")
    /\ result[r].initialResponse # result[r].replyResponse

\* C4: a persistence write appends one record: the file then holds every
\* record it held before plus the new one.
C4_WriteAppends ==
  [][\A p \in Paths :
       files'[p] # files[p] =>
         /\ files'[p].exists
         /\ Len(files'[p].rows) = Len(files[p].rows) + 1
         /\ SubSeq(files'[p].rows, 1, Len(files[p].rows)) = files[p].rows]_vars

\* C5: when the result says success, initialCsvPath is the path of a file
\* written in this session that holds the initial record, and replyCsvPath is
\* non-null exactly when a reply was extracted and saved, at that path.
C5_ReturnedPaths ==
  \A r \in Reqs :
    Succeeded(r) =>
      /\ result[r].initialCsvPath \in Paths
      /\ \E i \in Events(r, "write_initial") :
           trace[r][i].path = result[r].initialCsvPath
      /\ result[r].replyCsvPath # NoPath <=>
           (Has(r, "extract_reply") /\ Has(r, "write_reply"))
      /\ \A i \in Events(r, "write_reply") :
           trace[r][i].path = result[r].replyCsvPath

\* A body the deployed front end must reject.
Rejectable(b) ==
  \/ ~Truthy(b.initialPrompt)
  \/ frontend = "old" /\ (~Truthy(b.email) \/ ~Truthy(b.password))

\* C6: a request whose initialPrompt is missing or empty (in the older front
\* end: whose email, password or initialPrompt is) is answered with status 400
\* and an error, and no session is started for it: no browser, no prompt sent,
\* no file written.
C6_InvalidRequestRejected ==
  \A r \in Reqs :
    (hpc[r] # "idle" /\ Rejectable(body[r])) =>
      /\ Len(resp[r]) = 1
      /\ resp[r][1].status = 400
      /\ resp[r][1].error # Null
      /\ spc[r] = "none"
      /\ sess[r].browser = "none"
      /\ \A i \in 1..Len(trace[r]) : trace[r][i].ev \in {"received", "respond"}

\* C6 witness: a request with an empty initialPrompt has been answered.
C6_Witness ==
  \E r \in Reqs : Responded(r) /\ body[r].initialPrompt = "" /\ resp[r][1].status = 400

\* C7: every request is answered with exactly one JSON response: never two,
\* and the handler never finishes without one.
C7_ExactlyOneResponse ==
  \A r \in Reqs :
    /\ Len(resp[r]) <= 1
    /\ Responded(r) <=> Len(resp[r]) = 1
    /\ \A i \in 1..Len(resp[r]) : resp[r][i].status \in {200, 400, 500}

\* C7 witness: a rejected request and a request whose session failed have both
\* been answered.
C7_Witness ==
  \E r, q \in Reqs :
    /\ Responded(r) /\ resp[r][1].status = 400
    /\ Responded(q) /\ resp[q][1].status = 500

\* C8: a failed session is answered with status 500 and a body with an error
\* message and a suggestion, never with a 2xx status.
C8_FailedSessionIs500 ==
  \A r \in Reqs :
    (Responded(r) /\ Failed(r)) =>
      /\ resp[r][1].status = 500
      /\ resp[r][1].error # Null
      /\ resp[r][1].suggestion # Null

\* The session settled and none of its browser operations failed.
RanClean(r) == spc[r] = "settled" /\ ~Has(r, "opfail")

\* C9: the reply prompt is submitted if and only if replyPrompt is non-empty,
\* and only after the initial response was extracted; with an empty or absent
\* replyPrompt exactly one prompt is submitted and the result has replyResponse
\* null and replyCsvPath null.
C9_ReplyTurnOptionalAndOrdered ==
  \A r \in Reqs :
    /\ \A i \in Events(r, "submit_reply") :
         /\ Truthy(body[r].replyPrompt)
         /\ \E j \in Events(r, "extract_initial") : j < i
    /\ (RanClean(r) /\ Truthy(body[r].replyPrompt)) => Has(r, "submit_reply")
    /\ (Succeeded(r) /\ ~Truthy(body[r].replyPrompt)) =>
         /\ Cardinality(Events(r, "submit_initial")) = 1
         /\ ~Has(r, "submit_reply")
         /\ result[r].replyResponse = Null
         /\ result[r].replyCsvPath = NoPath

\* C10: in the direct-access service, with a non-empty reply prompt and every
\* browser operation succeeding, the reply is submitted and extracted and the
\* result says success with a non-null replyResponse.
C10_DirectReplyTurn ==
  \A r \in Reqs :
    (service = "direct" /\ RanClean(r) /\ Truthy(body[r].replyPrompt)) =>
      /\ Has(r, "submit_reply")
      /\ Has(r, "extract_reply")
      /\ Succeeded(r)
      /\ result[r].replyResponse # Null

Own(r) == <<body[r], hpc[r], spc[r], sess[r], result[r], resp[r], trace[r]>>

\* C12: every validated request runs in one browser session of its own: a
\* browser is launched at most once per request and only for a request that
\* has started a session, and a step of one request's session or handler
\* leaves everything that belongs to the other requests as it was; only the
\* outputs directory (and the clock) is shared.
C12_OwnSession ==
  [][\A r \in Reqs :
       /\ Cardinality(Events(r, "launch"))' <= 1
       /\ sess'[r].browser # "none" => Has(r, "session_started")'
       /\ Own(r)' # Own(r) => \A q \in Reqs \ {r} : Own(q)' = Own(q)]_vars

\* C12 witness: two sessions are in flight at once, each with its browser
\* open, and each has extracted a different response from its own page.
C12_Witness ==
  /\ sess[1].browser = "open" /\ sess[2].browser = "open"
  /\ spc[1] # "settled" /\ spc[2] # "settled"
  /\ sess[1].initialResponse = "answer A"
  /\ sess[2].initialResponse = "answer B"

\* ------------------------------------------------------------------ C13
\* C13: a response is read only after streaming has finished: whenever a
\* session is about to read the initial or the reply response from the page,
\* no streaming or loading indicator is on the page; a wait whose indicator
\* never goes away does not lead to an extraction.
C13_ExtractAfterStreaming ==
  \A r \in Reqs :
    spc[r] \in {"extract_initial", "extract_reply"} => ~sess[r].streaming

\* ------------------------------------------------------------------ C14
\* The credentials the requests carried.
Credentials == {body[r].email : r \in Reqs} \cup {body[r].password : r \in Reqs}
\* The texts of a response body and of a stored record.
BodyTexts(j) == {j.error, j.suggestion, j.initialResponse, j.replyResponse}
RecordTexts(rec) == {rec.prompt, rec.response}

Resumes(r, solve, to) ==
  (spc[r] = solve /\ spc'[r] # solve) =>
    \/ spc'[r] = to /\ sess'[r] = sess[r] /\ trace'[r] = trace[r]
    \/ /\ spc'[r] = "closing"
       /\ sess'[r].outcome = Thrown("TimeoutError")

\* C15: in the login service, a CAPTCHA detected after the email step or after
\* the password step pauses the session: while it waits it has not typed the
\* password (after the email step) and has submitted no prompt, its only step
\* is the end of the wait, which either continues with the password step
\* (the chat textarea step after the password step) once the awaited element
\* has appeared, or fails the session with an error when the solving timeout
\* comes first; a session is paused only after a CAPTCHA check.
C15_CaptchaPausesLogin ==
  [][\A r \in Reqs :
       /\ Resumes(r, "solve1", "password")
       /\ Resumes(r, "solve2", "textarea")
       /\ (spc'[r] = "solve1" /\ spc[r] # "solve1") => spc[r] = "captcha1"
       /\ (spc'[r] = "solve2" /\ spc[r] # "solve2") => spc[r] = "captcha2"
       /\ spc'[r] = "solve1" => sess'[r].password = Null
       /\ spc'[r] \in {"solve1", "solve2"} =>
            /\ ~Has(r, "submit_initial")'
            /\ sess'[r].browser = "open"
            /\ result'[r].kind = "pending"]_vars

\* C15 witness: one session is paused on a CAPTCHA after the email step and
\* another on a CAPTCHA after the password step, its password typed.
C15_Witness ==
  \E r, q \in Reqs :
    /\ spc[r] = "solve1" /\ sess[r].username = "user@example.com"
    /\ spc[q] = "solve2" /\ sess[q].password = "secret"

\* ------------------------------------------------------------------ C16
\* C16: in the direct-access service a CAPTCHA on the page is waited for (it
\* is solved by hand when no automatic solver is configured) before any prompt
\* is submitted: no prompt has been submitted to a page that shows a CAPTCHA.
C16_DirectCaptchaSolvedBeforePrompt ==
  \A r \in Reqs :
    (service = "direct" /\ spc[r] = "wait_initial") => ~sess[r].captcha

FailedMsg == "Failed to access any official ChatGPT interface"
\* The outcomes are those of the first stages in order, all failed but
\* possibly the last.
InOrder(log, order) ==
  \A i \in 1..Len(log) :
    /\ i <= Len(order)
    /\ log[i].step = order[i]
    /\ i < Len(log) => ~log[i].found
\* n stages (approaches) have run and all of them failed.
AllFailed(log, n) == Len(log) = n /\ \A i \in 1..n : ~log[i].found

\* C18: the stages are tried in the order main site, direct /chat URL, GPTs
\* gallery, official-site list: a stage starts only when every earlier stage
\* has run and failed, the navigation is left only after a stage that
\* succeeded, and the session fails with 'Failed to access any official
\* ChatGPT interface' only after the three earlier stages and the last attempt
\* of the official-site loop have failed.
C18_StagesInOrder ==
  [][\A r \in Reqs :
       /\ InOrder(sess'[r].stages, StageOrder)
       /\ spc'[r] \in {"nav_main", "nav_main_login"} => sess'[r].stages = <<>>
       /\ spc'[r] = "nav_direct" => AllFailed(sess'[r].stages, 1)
       /\ spc'[r] = "nav_gallery" => AllFailed(sess'[r].stages, 2)
       /\ spc'[r] = "nav_official" => AllFailed(sess'[r].stages, 3)
       /\ spc'[r] = "initial_load" =>
            /\ sess'[r].stages # <<>>
            /\ sess'[r].stages[Len(sess'[r].stages)].found
       /\ (result'[r].error = FailedMsg /\ result[r].kind = "pending") =>
            /\ spc[r] = "nav_official"
            /\ AllFailed(sess[r].stages, 3)
            /\ sess[r].site = NumOfficialSites /\ sess[r].attempt = MaxAttempts
            /\ ~result'[r].success]_vars

\* C18 witness: one session failed after all four stages, another reached a
\* chat interface in the GPTs gallery after the first two stages had failed.
C18_Witness ==
  \E r, q \in Reqs :
    /\ result[r].error = FailedMsg
    /\ spc[q] = "initial_load"
    /\ sess[q].stages = <<Outcome("main", FALSE), Outcome("direct", FALSE),
                          Outcome("gallery", TRUE)>>

\* ------------------------------------------------------------------ C19
\* The number of the attempt in the whole loop, from 1.
AttemptIndex(s) == (s.site - 1) * MaxAttempts + s.attempt

\* C19: the official-site loop visits the five sites in list order with at
\* most three attempts each, fifteen in all: it starts at the first attempt of
\* the first site, a failed attempt is followed by the next attempt at the
\* same site or, after the third, by the first attempt at the next site, an
\* attempt that finds a chat input is followed by no further attempt, and
\* after the fifteenth failed attempt the loop ends with the error; every step
\* of the loop leaves it or advances the attempt number, so it terminates.
C19_OfficialSiteLoop ==
  [][\A r \in Reqs :
       /\ spc'[r] = "nav_official" =>
            /\ sess'[r].site \in 1..NumOfficialSites
            /\ sess'[r].attempt \in 1..MaxAttempts
            /\ AttemptIndex(sess'[r]) <= NumOfficialSites * MaxAttempts
       /\ (spc[r] # "nav_official" /\ spc'[r] = "nav_official") =>
            /\ spc[r] = "nav_gallery"
            /\ sess'[r].site = 1 /\ sess'[r].attempt = 1
       /\ (spc[r] = "nav_official" /\ <<spc'[r], sess'[r]>> # <<spc[r], sess[r]>>) =>
            \/ /\ spc'[r] = "initial_load"
               /\ sess'[r].stages[Len(sess'[r].stages)] = Outcome("official", TRUE)
            \/ /\ spc'[r] = "nav_official"
               /\ AttemptIndex(sess'[r]) = AttemptIndex(sess[r]) + 1
               /\ \/ sess'[r].site = sess[r].site
                  \/ sess'[r].site = sess[r].site + 1 /\ sess[r].attempt = MaxAttempts
            \/ /\ spc'[r] = "settled"
               /\ AttemptIndex(sess[r]) = NumOfficialSites * MaxAttempts
               /\ result'[r].error = FailedMsg]_vars

\* C19 witness: one session is at the third attempt of the last site, after
\* fourteen failed attempts, and another has left the loop with a chat input.
C19_Witness ==
  \E r, q \in Reqs :
    /\ spc[r] = "nav_official"
    /\ sess[r].site = NumOfficialSites /\ sess[r].attempt = MaxAttempts
    /\ spc[q] = "initial_load"
    /\ Len(sess[q].stages) = 4 /\ sess[q].stages[4].found

C21_DistinctWritePaths ==
  /\ \A r \in Reqs : \A i \in WriteEvents(r) :
       /\ trace[r][i].path \in Paths
       /\ trace[r][i].path.type =
            (IF trace[r][i].ev = "write_initial" THEN "initial" ELSE "reply")
       /\ trace[r][i].path.stamp <= clock
  /\ \A r, q \in Reqs : \A i \in WriteEvents(r) : \A j \in WriteEvents(q) :
       <<r, i>> # <<q, j>> => trace[r][i].path # trace[q][j].path

\* ------------------------------------------------------------------ C22
\* Whatever request r does next once it has arrived: the step of its session
\* that the awaited browser operation leads to, or the answer of its handler.
Step(r) ==
  \/ Respond(r) \/ Launch(r)
  \/ OpenLoginPage(r) \/ SubmitEmail(r) \/ CaptchaAfterEmail(r)
  \/ SolveAfterEmail(r) \/ SubmitPassword(r)
  \/ CaptchaAfterPassword(r) \/ SolveAfterPassword(r)
  \/ WaitChat(r) \/ LoginSubmitInitial(r) \/ LoginWaitInitial(r)
  \/ LoginExtractInitial(r) \/ LoginSaveInitial(r) \/ LoginWriteInitial(r)
  \/ LoginSubmitReply(r) \/ LoginWaitReply(r) \/ LoginExtractReply(r)
  \/ LoginSaveReply(r) \/ LoginWriteReply(r)
  \/ LoginSleep(r) \/ LoginClose(r)
  \/ NavMain(r) \/ NavMainLogin(r) \/ NavDirectChat(r)
  \/ NavGallery(r) \/ NavOfficial(r) \/ InitialLoad(r)
  \/ FindInput(r) \/ FindInForm(r) \/ FindAtBottom(r)
  \/ FindByKeyboard(r) \/ InputFound(r)
  \/ TypeInitial(r) \/ SendInitial(r)
  \/ DirectWaitInitial(r) \/ DirectExtractInitial(r)
  \/ TypeReply(r) \/ SendReply(r) \/ DirectComplete(r)

\* Every browser operation a session awaits completes or fails with its
\* timeout, and the event loop runs the continuation that then is ready: a
\* request that can take a step eventually takes one.
Fairness == \A r \in Reqs : WF_vars(Step(r))

\* The bodies of a request that arrives while another is in flight: a
\* single-turn request with its credentials, valid or without a usable prompt.
LaterBodies ==
  {b \in Bodies : /\ b.replyPrompt = Missing
                  /\ b.email # Missing /\ b.password # Missing}

\* The arrival of a request: the first carries any body, a later one a body of
\* LaterBodies.
ReceiveLive(r) == Receive(r) /\ (r > 1 => body'[r] \in LaterBodies)

NextLive == \E r \in Reqs : ReceiveLive(r) \/ Step(r)

SpecLive == Init /\ [][NextLive]_vars /\ Fairness

\* C22: every POST /chat request eventually receives its HTTP response: once
\* a request has arrived, its session settles and its handler answers.
C22_EveryRequestAnswered ==
  \A r \in Reqs : (hpc[r] # "idle") ~> (Responded(r) /\ Len(resp[r]) = 1)

\* C22 witness: both requests have been answered, one after its session ran
\* out of official sites and attempts, or after its wait for the end of the
\* response timed out, the other after a session that ended successfully.
C22_Witness ==
  \E r, q \in Reqs :
    /\ Responded(r) /\ Len(resp[r]) = 1
    /\ Has(r, "session_started") /\ Failed(r)
    /\ result[r].error \in {"TimeoutError", FailedMsg}
    /\ Responded(q) /\ Len(resp[q]) = 1 /\ Succeeded(q)
====
